---- MODULE Spec2Model ----
(***************************************************************************)
(* Verification model of the DIAFold helper scripts:                       *)
(*   scripts/dia2a3m.py              CIGAR decoder, A3M writer, main loop  *)
(*   scripts/PDB file prep/clean.py  coverage / gap scorer, cleaner        *)
(*   scripts/a3m_quality.py          MSA reader, metrics, filter call      *)
(*   scripts/star_alighnment_DIAMOND.py   the slice-based CIGAR decoder    *)
(* Strings are sequences of one-character strings.                         *)
(***************************************************************************)
EXTENDS Integers, Sequences, FiniteSets, TLC

VARIABLES
    \* ---- dia2a3m.py: cigar_to_alignment_fold (arguments and locals)
    cigar_string, sequence, query,
    pos,            \* number of characters of cigar_string already scanned
    index, s_curr, q_curr, col,
    alignment_q, alignment_s, insertions,
    pc_fold,        \* "idle" | "loop" | "returned" | "raised"
    known,          \* the known alignment a synthetic CIGAR was encoded from
    \* ---- dia2a3m.py: __main__
    fasta_records,  \* the FASTA input: sequence of <<id, sequence>>
    hit_lines,      \* the hit list: sequence of split lines
    queries_seq, dict_hits_per_query,
    main_i,         \* number of entries of dict_hits_per_query already visited
    out_files,      \* the output directory: file name -> sequence of records
    warnings,       \* query ids reported with "not found in FASTA"
    pc_main,        \* "idle" | "start" | "loop" | "done" | "raised"
    \* ---- clean.py: main and process_cif_file
    in_dir,         \* the input directory: file name -> the entry it holds
    cif_files,      \* sorted file names
    file_i,         \* number of files already processed
    log_fh,         \* the lines written to clean_log.txt
    out_cif,        \* the output directory: file name -> written chains
    structure,      \* the chains of model 0 of the parsed structure
    cif_dict,       \* the mmCIF dictionary of the file, or "None"
    chain_id, seq_ids, auth_map, method, coverage, max_gap,
    pc_clean,       \* "idle" | "list" | "parse" | "model" | "threshold" | "done"
    \* ---- a3m_quality.py: main, compute_metrics_for_file and the filter call
    a3m_dir,        \* the input directory: file name -> the lines of the file
    paths,          \* sorted file names
    path_i,         \* number of files already scored
    metric_rows,    \* rows, the metric rows collected by main
    out_tsv,        \* the output file: None until it is written
    tmp_files,      \* the file names whose filter output file exists
    hh_calls,       \* what the filter binary did at each call, in call order
    raw_msa, target,
    n_hat_pending,  \* the pending outcome of the try block of the filter call
    pc_score,       \* "idle" | "list" | "file" | "finally" | "no_files"
                    \* | "done" | "raised"
    \* ---- star_alighnment_DIAMOND.py: cigar_to_alignment_fold, called with
    \* the arguments cigar_string, sequence and query above
    star_alignment_q, star_alignment_s,
    pc_star         \* "idle" | "returned" | "raised"

foldVars == <<cigar_string, sequence, query, pos, index, s_curr, q_curr, col,
              alignment_q, alignment_s, insertions, pc_fold, known>>
mainVars == <<fasta_records, hit_lines, queries_seq, dict_hits_per_query,
              main_i, out_files, warnings, pc_main>>
cleanVars == <<in_dir, cif_files, file_i, log_fh, out_cif, structure, cif_dict,
               chain_id, seq_ids, auth_map, method, coverage, max_gap, pc_clean>>
scoreVars == <<a3m_dir, paths, path_i, metric_rows, out_tsv, tmp_files, hh_calls,
               raw_msa, target, n_hat_pending, pc_score>>
starVars == <<star_alignment_q, star_alignment_s, pc_star>>
vars == <<foldVars, mainVars, cleanVars, scoreVars, starVars>>
notFold == <<mainVars, cleanVars, scoreVars, starVars>>
notMain == <<foldVars, cleanVars, scoreVars, starVars>>
notClean == <<foldVars, mainVars, scoreVars, starVars>>
notScore == <<foldVars, mainVars, cleanVars, starVars>>
notStar == <<foldVars, mainVars, cleanVars, scoreVars>>

(***************************************************************************)
(* Bounds of the model.                                                    *)
(***************************************************************************)
MaxOps == 3         \* run/operator tokens in a CIGAR string
MaxSeqLen == 3      \* characters of a subject slice
MaxQueryLen == 2    \* characters of a query slice
MaxColumns == 4     \* columns of a known alignment
MaxLines == 3       \* lines of a hit list over several queries
MaxHits == 2        \* hits of one query in a hit list of that query alone
MaxPos == 6         \* largest polymer position of a small entry
MaxFiles == 2       \* files of an input directory of several files

Min(a, b) == IF a < b THEN a ELSE b
Max(a, b) == IF a > b THEN a ELSE b

(***************************************************************************)
(* Characters.                                                             *)
(***************************************************************************)
\* str.isdigit()
IsDigit(char) == char \in {"0", "1", "2", "3", "4", "5", "6", "7", "8", "9"}

\* int(char) for a digit character
DigitValue(char) ==
    CASE char = "0" -> 0 [] char = "1" -> 1 [] char = "2" -> 2
      [] char = "3" -> 3 [] char = "4" -> 4 [] char = "5" -> 5
      [] char = "6" -> 6 [] char = "7" -> 7 [] char = "8" -> 8
      [] char = "9" -> 9

\* str.lower() on one residue character
Lower(char) ==
    CASE char = "A" -> "a" [] char = "B" -> "b" [] char = "C" -> "c"
      [] char = "D" -> "d" [] char = "E" -> "e" [] char = "F" -> "f"
      [] char = "G" -> "g" [] char = "H" -> "h" [] char = "I" -> "i"
      [] char = "J" -> "j"
      [] OTHER -> char

LowerChars == {"a", "b", "c", "d", "e", "f", "g", "h", "i", "j"}

(***************************************************************************)
(* cigar_to_alignment_fold, dia2a3m.py.  The locals of the function are a  *)
(* record  [index, s_curr, q_curr, col, alignment_q, alignment_s,          *)
(* insertions, raised].                                                    *)
(***************************************************************************)
FoldStart ==
    [index |-> 0, s_curr |-> 0, q_curr |-> 0, col |-> -1,
     alignment_q |-> <<>>, alignment_s |-> <<>>, insertions |-> <<>>,
     raised |-> FALSE]

\* line 64: the M loop breaks
MBreaks(st, seq, qry) == st.q_curr >= Len(qry) \/ st.s_curr >= Len(seq)

\* line 75: the I loop breaks
IBreaks(st, seq, qry) == st.q_curr >= Len(qry)

\* line 85: the D loop breaks
DBreaks(st, seq, qry) == st.s_curr >= Len(seq)

\* an M repeat that stores the query character in the subject row
MBodySwapped(st, seq, qry) ==
    [st EXCEPT !.alignment_q = Append(@, seq[st.s_curr + 1]),
               !.alignment_s = Append(@, qry[st.q_curr + 1]),
               !.insertions = Append(@, <<>>),
               !.q_curr = @ + 1,
               !.s_curr = @ + 1,
               !.col = @ + 1]

\* lines 66-71: one repeat of M
MBody(st, seq, qry) ==
    [st EXCEPT !.alignment_q = Append(@, qry[st.q_curr + 1]),
               !.alignment_s = Append(@, seq[st.s_curr + 1]),
               !.insertions = Append(@, <<>>),
               !.q_curr = @ + 1,
               !.s_curr = @ + 1,
               !.col = @ + 1]

\* an I repeat that also consumes a subject character
IBodyConsumesSubject(st, seq, qry) ==
    [st EXCEPT !.alignment_q = Append(@, qry[st.q_curr + 1]),
               !.alignment_s = Append(@, "-"),
               !.insertions = Append(@, <<>>),
               !.q_curr = @ + 1,
               !.s_curr = @ + 1,
               !.col = @ + 1]

\* lines 77-81: one repeat of I
IBody(st, seq, qry) ==
    [st EXCEPT !.alignment_q = Append(@, qry[st.q_curr + 1]),
               !.alignment_s = Append(@, "-"),
               !.insertions = Append(@, <<>>),
               !.q_curr = @ + 1,
               !.col = @ + 1]

\* a D repeat that stores the subject character as it is
DBodyKeepsCase(st, seq, qry) ==
    [st EXCEPT !.insertions =
                   IF st.col >= 0
                   THEN [@ EXCEPT ![st.col + 1] = Append(@, seq[st.s_curr + 1])]
                   ELSE @,
               !.s_curr = @ + 1]

\* lines 87-89: one repeat of D (col is 0-based, insertions[col] is the
\* entry col + 1 of the sequence)
DBody(st, seq, qry) ==
    [st EXCEPT !.insertions =
                   IF st.col >= 0
                   THEN [@ EXCEPT ![st.col + 1] =
                                      Append(@, Lower(seq[st.s_curr + 1]))]
                   ELSE @,
               !.s_curr = @ + 1]

\* an M loop that fails on an overrun instead of breaking
RECURSIVE RunMRaises(_, _, _, _)
RunMRaises(st, n, seq, qry) ==
    IF n <= 0 THEN st
    ELSE IF MBreaks(st, seq, qry) THEN [st EXCEPT !.raised = TRUE]
    ELSE RunMRaises(MBody(st, seq, qry), n - 1, seq, qry)

\* lines 63, 74, 84: for _ in range(index) with its break
RECURSIVE RunM(_, _, _, _)
RunM(st, n, seq, qry) ==
    IF n <= 0 \/ MBreaks(st, seq, qry) THEN st
    ELSE RunM(MBody(st, seq, qry), n - 1, seq, qry)

RECURSIVE RunI(_, _, _, _)
RunI(st, n, seq, qry) ==
    IF n <= 0 \/ IBreaks(st, seq, qry) THEN st
    ELSE RunI(IBody(st, seq, qry), n - 1, seq, qry)

RECURSIVE RunD(_, _, _, _)
RunD(st, n, seq, qry) ==
    IF n <= 0 \/ DBreaks(st, seq, qry) THEN st
    ELSE RunD(DBody(st, seq, qry), n - 1, seq, qry)

\* lines 59-94: the body of  for char in cigar_string
CigarStep(st, char, seq, qry) ==
    IF IsDigit(char)
    THEN [st EXCEPT !.index = st.index * 10 + DigitValue(char)]
    ELSE IF char = "M"
    THEN [RunM(st, st.index, seq, qry) EXCEPT !.index = 0]
    ELSE IF char = "I"
    THEN [RunI(st, st.index, seq, qry) EXCEPT !.index = 0]
    ELSE IF char = "D"
    THEN [RunD(st, st.index, seq, qry) EXCEPT !.index = 0]
    ELSE [st EXCEPT !.raised = TRUE]

\* a decoder without the trailing loop
TailFillMissing(st, qry) == st

\* lines 96-101: the trailing while loop
RECURSIVE TailFill(_, _)
TailFill(st, qry) ==
    IF st.q_curr < Len(qry)
    THEN TailFill([st EXCEPT !.alignment_q = Append(@, qry[st.q_curr + 1]),
                             !.alignment_s = Append(@, "-"),
                             !.insertions = Append(@, <<>>),
                             !.q_curr = @ + 1,
                             !.col = @ + 1], qry)
    ELSE st

\* lines 58-94: the for loop from character k + 1 on; stops at a raise
RECURSIVE FoldLoop(_, _, _, _, _)
FoldLoop(st, k, cigar, seq, qry) ==
    IF st.raised \/ k >= Len(cigar) THEN st
    ELSE FoldLoop(CigarStep(st, cigar[k + 1], seq, qry), k + 1, cigar, seq, qry)

\* lines 35-103: the whole function; the result is
\* [raised, alignment_q, alignment_s, insertions]
cigar_to_alignment_fold(cigar, seq, qry) ==
    LET st == FoldLoop(FoldStart, 0, cigar, seq, qry)
        fin == IF st.raised THEN st ELSE TailFill(st, qry)
    IN  [raised |-> fin.raised,
         alignment_q |-> IF fin.raised THEN <<>> ELSE fin.alignment_q,
         alignment_s |-> IF fin.raised THEN <<>> ELSE fin.alignment_s,
         insertions |-> IF fin.raised THEN <<>> ELSE fin.insertions]

(***************************************************************************)
(* Inputs of the decoder.                                                  *)
(***************************************************************************)
Residues == <<"A", "B", "C", "D", "E">>
QueryResidues == <<"F", "G", "H", "I", "J">>

\* one run of a CIGAR string: digits, then an operator character
CigarTokens ==
    {<<d, op>> : d \in {"1", "2"}, op \in {"M", "I", "D"}}
        \cup {<<"M">>, <<"3", "M">>, <<"1", "0", "D">>, <<"2", "X">>}

RECURSIVE CigarsOf(_)
CigarsOf(n) ==
    IF n = 0 THEN {<<>>}
    ELSE LET shorter == CigarsOf(n - 1)
         IN  shorter \cup {c \o t : c \in shorter, t \in CigarTokens}

Subjects == {SubSeq(Residues, 1, n) : n \in 0..MaxSeqLen}
Queries == {SubSeq(QueryResidues, 1, n) : n \in 0..MaxQueryLen}

\* the worked example of the decoder: "3M2D2I" over "ABCDE" and "FGHIJ"
ExampleCigar == <<"3", "M", "2", "D", "2", "I">>

(***************************************************************************)
(* The decoder as a state machine: one step per character of the CIGAR     *)
(* string, then the trailing loop and the return.                          *)
(***************************************************************************)
Locals ==
    [index |-> index, s_curr |-> s_curr, q_curr |-> q_curr, col |-> col,
     alignment_q |-> alignment_q, alignment_s |-> alignment_s,
     insertions |-> insertions, raised |-> FALSE]

SetLocals(st) ==
    /\ index' = st.index
    /\ s_curr' = st.s_curr
    /\ q_curr' = st.q_curr
    /\ col' = st.col
    /\ alignment_q' = st.alignment_q
    /\ alignment_s' = st.alignment_s
    /\ insertions' = st.insertions

\* lines 49-56: the function entered with its arguments
EnterFold(cigar, seq, qry) ==
    /\ cigar_string = cigar
    /\ sequence = seq
    /\ query = qry
    /\ pos = 0
    /\ index = FoldStart.index
    /\ s_curr = FoldStart.s_curr
    /\ q_curr = FoldStart.q_curr
    /\ col = FoldStart.col
    /\ alignment_q = FoldStart.alignment_q
    /\ alignment_s = FoldStart.alignment_s
    /\ insertions = FoldStart.insertions
    /\ pc_fold = "loop"

MainIdle ==
    /\ fasta_records = <<>>
    /\ hit_lines = <<>>
    /\ queries_seq = <<>>
    /\ dict_hits_per_query = <<>>
    /\ main_i = 0
    /\ out_files = <<>>
    /\ warnings = <<>>
    /\ pc_main = "idle"

CleanIdle ==
    /\ in_dir = <<>>
    /\ cif_files = <<>>
    /\ file_i = 0
    /\ log_fh = <<>>
    /\ out_cif = <<>>
    /\ structure = <<>>
    /\ cif_dict = [none |-> TRUE]
    /\ chain_id = ""
    /\ seq_ids = [none |-> TRUE]
    /\ auth_map = [none |-> TRUE]
    /\ method = ""
    /\ coverage = <<0, 1>>
    /\ max_gap = 0
    /\ pc_clean = "idle"

ScoreIdle ==
    /\ a3m_dir = <<>>
    /\ paths = <<>>
    /\ path_i = 0
    /\ metric_rows = <<>>
    /\ out_tsv = [none |-> TRUE]
    /\ tmp_files = {}
    /\ hh_calls = <<>>
    /\ raw_msa = <<>>
    /\ target = ""
    /\ n_hat_pending = [none |-> TRUE]
    /\ pc_score = "idle"

StarIdle ==
    /\ star_alignment_q = <<>>
    /\ star_alignment_s = <<>>
    /\ pc_star = "idle"

Init ==
    /\ \/ \E cigar \in CigarsOf(MaxOps), seq \in Subjects, qry \in Queries :
              EnterFold(cigar, seq, qry)
       \/ EnterFold(ExampleCigar, Residues, QueryResidues)
    /\ known = <<>>
    /\ MainIdle
    /\ CleanIdle
    /\ ScoreIdle
    /\ StarIdle

\* the next character of the for loop, line 58
AtChar == pc_fold = "loop" /\ pos < Len(cigar_string)
Char == cigar_string[pos + 1]

\* lines 59-60
ScanDigit ==
    /\ AtChar
    /\ IsDigit(Char)
    /\ SetLocals(CigarStep(Locals, Char, sequence, query))
    /\ pos' = pos + 1
    /\ UNCHANGED <<cigar_string, sequence, query, pc_fold, known, notFold>>

\* lines 62-89 and 94: one operator with its whole run
Operator(op) ==
    /\ AtChar
    /\ Char = op
    /\ ~CigarStep(Locals, Char, sequence, query).raised
    /\ SetLocals(CigarStep(Locals, Char, sequence, query))
    /\ pos' = pos + 1
    /\ UNCHANGED <<cigar_string, sequence, query, pc_fold, known, notFold>>

OpM == Operator("M")
OpI == Operator("I")
OpD == Operator("D")

\* lines 91-92: raise ValueError
OpInvalid ==
    /\ AtChar
    /\ CigarStep(Locals, Char, sequence, query).raised
    /\ pc_fold' = "raised"
    /\ UNCHANGED <<cigar_string, sequence, query, pos, index, s_curr, q_curr,
                   col, alignment_q, alignment_s, insertions, known, notFold>>

\* lines 96-103: the trailing loop and the return
ReturnFold ==
    /\ pc_fold = "loop"
    /\ pos >= Len(cigar_string)
    /\ SetLocals(TailFill(Locals, query))
    /\ pc_fold' = "returned"
    /\ UNCHANGED <<cigar_string, sequence, query, pos, known, notFold>>

Next == ScanDigit \/ OpM \/ OpI \/ OpD \/ OpInvalid \/ ReturnFold

Spec == Init /\ [][Next]_vars

\* what the function returned, in the shape of cigar_to_alignment_fold
Returned ==
    [raised |-> pc_fold = "raised",
     alignment_q |-> IF pc_fold = "raised" THEN <<>> ELSE alignment_q,
     alignment_s |-> IF pc_fold = "raised" THEN <<>> ELSE alignment_s,
     insertions |-> IF pc_fold = "raised" THEN <<>> ELSE insertions]

FoldEnded == pc_fold \in {"returned", "raised"}

(***************************************************************************)
(* Claims about the decoder.                                               *)
(***************************************************************************)
ValidCigar(cigar) ==
    \A i \in 1..Len(cigar) : IsDigit(cigar[i]) \/ cigar[i] \in {"M", "I", "D"}

\* C1: for a CIGAR of digits and M, I, D, whatever the slices, the decoder
\* does not raise and returns an aligned subject and an insertion list of
\* exactly len(query) entries each.
C1_ColumnsEqualQuery ==
    /\ ValidCigar(cigar_string) => pc_fold # "raised"
    /\ pc_fold = "returned" =>
           /\ Len(alignment_s) = Len(query)
           /\ Len(insertions) = Len(query)
           /\ Len(alignment_q) = Len(query)

\* a CIGAR that overruns the subject and ends before the query does
C1_Witness ==
    /\ pc_fold = "returned"
    /\ cigar_string = <<"1", "M", "1", "0", "D">>
    /\ Len(sequence) = 3
    /\ Len(query) = 2
    /\ alignment_s = <<"A", "-">>

DigitChar(n) ==
    CASE n = 0 -> "0" [] n = 1 -> "1" [] n = 2 -> "2" [] n = 3 -> "3"
      [] n = 4 -> "4" [] n = 5 -> "5" [] n = 6 -> "6" [] n = 7 -> "7"
      [] n = 8 -> "8" [] n = 9 -> "9"

RECURSIVE Decimal(_)
Decimal(n) == IF n < 10 THEN <<DigitChar(n)>>
              ELSE Append(Decimal(n \div 10), DigitChar(n % 10))

\* the CIGAR with every run shortened to the characters still available:
\* run holds the digits of the current run, n their value, qa and sa the
\* query and subject characters not yet consumed
RECURSIVE ShortenFrom(_, _, _, _, _, _)
ShortenFrom(cigar, k, run, n, qa, sa) ==
    IF k > Len(cigar) THEN run
    ELSE LET c == cigar[k]
             take == CASE c = "M" -> Min(n, Min(qa, sa))
                       [] c = "I" -> Min(n, qa)
                       [] c = "D" -> Min(n, sa)
                       [] OTHER -> n
             digits == IF take = n THEN run ELSE Decimal(take)
         IN  IF IsDigit(c)
             THEN ShortenFrom(cigar, k + 1, Append(run, c),
                              n * 10 + DigitValue(c), qa, sa)
             ELSE digits \o <<c>> \o
                  ShortenFrom(cigar, k + 1, <<>>, 0,
                              IF c \in {"M", "I"} THEN qa - take ELSE qa,
                              IF c \in {"M", "D"} THEN sa - take ELSE sa)

ShortenRuns(cigar, seq, qry) ==
    ShortenFrom(cigar, 1, <<>>, 0, Len(qry), Len(seq))

\* C5: a run that would consume past the end of a slice does not raise; the
\* result is that of the same CIGAR with the run shortened to what was
\* still available, the following operators included.
C5_OverrunTruncates ==
    /\ pc_fold = "raised" => ~ValidCigar(cigar_string)
    /\ FoldEnded =>
           Returned = cigar_to_alignment_fold(
                          ShortenRuns(cigar_string, sequence, query),
                          sequence, query)

\* "3M1I" over a one-character subject: the M run is cut to one column and
\* the I run still adds its column
C5_Witness ==
    /\ pc_fold = "returned"
    /\ cigar_string = <<"3", "M", "1", "I">>
    /\ ShortenRuns(cigar_string, sequence, query) = <<"1", "M", "1", "I">>
    /\ alignment_s = <<"A", "-">>

\* the lower-cased subject characters s_curr + 1 .. s_curr + n
LoweredRun(n) == [i \in 1..n |-> Lower(sequence[s_curr + i])]

C6_DStep ==
    (AtChar /\ Char = "D" /\ pos' = pos + 1) =>
        LET n == Min(index, Len(sequence) - s_curr)
            last == Len(alignment_s)
        IN  /\ s_curr' = s_curr + n
            /\ alignment_s' = alignment_s
            /\ alignment_q' = alignment_q
            /\ insertions' =
                   IF last > 0
                   THEN [insertions EXCEPT ![last] = @ \o LoweredRun(n)]
                   ELSE insertions

C6_NextM ==
    (AtChar /\ Char = "M" /\ pos' = pos + 1
        /\ Len(alignment_s') > Len(alignment_s)) =>
        alignment_s'[Len(alignment_s) + 1] = sequence[s_curr + 1]

C6_Example ==
    (/\ pc_fold = "returned"
     /\ cigar_string = ExampleCigar
     /\ sequence = Residues
     /\ query = QueryResidues) =>
        /\ alignment_s = <<"A", "B", "C", "-", "-">>
        /\ insertions = <<<<>>, <<>>, <<"d", "e">>, <<>>, <<>>>>

\* C6: a D run appends its subject characters, lower-cased and in subject
\* order, to the insertion string of the most recently emitted column; with
\* no column emitted yet they go nowhere, but the subject cursor advances and
\* the next M aligns the character after them.  "3M2D2I" over ABCDE and
\* FGHIJ gives ABC-- with insertion "de" at column index 2.
C6_DeletionsBecomeInsertions ==
    [][C6_DStep /\ C6_NextM]_vars /\ []C6_Example

\* "1D1M1D" over ABC: A is dropped, B is aligned, c is inserted after it
C6_Witness ==
    /\ pc_fold = "returned"
    /\ cigar_string = <<"1", "D", "1", "M", "1", "D">>
    /\ Len(query) = 1
    /\ alignment_s = <<"B">>
    /\ insertions = <<<<"c">>>>

\* C7: an M run adds the same amount to emitted columns, consumed query and
\* consumed subject characters; an I run adds the same amount to columns and
\* consumed query characters and none to the subject; a D run adds only to
\* consumed subject characters.
C7_Step ==
    (AtChar /\ pos' = pos + 1) =>
        LET dcol == Len(alignment_s') - Len(alignment_s)
            dq == q_curr' - q_curr
            ds == s_curr' - s_curr
        IN  /\ dcol >= 0 /\ dq >= 0 /\ ds >= 0
            /\ Len(insertions') - Len(insertions) = dcol
            /\ col' - col = dcol
            /\ Char = "M" => (dcol = dq /\ dcol = ds)
            /\ Char = "I" => (dcol = dq /\ ds = 0)
            /\ Char = "D" => (dcol = 0 /\ dq = 0)
            /\ IsDigit(Char) => (dcol = 0 /\ dq = 0 /\ ds = 0)

C7_OperatorCounters == [][C7_Step]_vars

\* "1M1I1D" over at least two characters each: every operator has acted
C7_Witness ==
    /\ pc_fold = "loop"
    /\ cigar_string = <<"1", "M", "1", "I", "1", "D">>
    /\ pos = 6
    /\ q_curr = 2
    /\ s_curr = 2
    /\ Len(alignment_s) = 2

(***************************************************************************)
(* Round trip: a known pairwise alignment, encoded as a CIGAR and decoded. *)
(* A column of the alignment is <<q, s>>: two residues (M), a query        *)
(* residue over a subject gap (I), or a subject residue inserted between   *)
(* query columns, <<"-", s>> (D).                                          *)
(***************************************************************************)
AlignmentColumns ==
    {<<"F", "A">>, <<"G", "B">>, <<"F", "-">>, <<"-", "A">>, <<"-", "B">>}

RECURSIVE AlignmentsOf(_)
AlignmentsOf(n) ==
    IF n = 0 THEN {<<>>}
    ELSE LET shorter == AlignmentsOf(n - 1)
         IN  shorter \cup {Append(a, c) : a \in shorter, c \in AlignmentColumns}

ColumnOp(c) == IF c[1] = "-" THEN "D" ELSE IF c[2] = "-" THEN "I" ELSE "M"

\* the run-length encoding of the columns k.. of a, n columns of the
\* operator op pending
RECURSIVE EncodeFrom(_, _, _, _)
EncodeFrom(a, k, op, n) ==
    IF k > Len(a) THEN (IF n = 0 THEN <<>> ELSE Append(Decimal(n), op))
    ELSE IF n > 0 /\ ColumnOp(a[k]) = op THEN EncodeFrom(a, k + 1, op, n + 1)
    ELSE (IF n = 0 THEN <<>> ELSE Append(Decimal(n), op))
             \o EncodeFrom(a, k + 1, ColumnOp(a[k]), 1)

EncodeCigar(a) == EncodeFrom(a, 1, "M", 0)

RECURSIVE Ungapped(_, _)
Ungapped(a, side) ==
    IF a = <<>> THEN <<>>
    ELSE (IF Head(a)[side] = "-" THEN <<>> ELSE <<Head(a)[side]>>)
             \o Ungapped(Tail(a), side)

\* the subject row of the alignment, one character per query column
RECURSIVE ColumnAlignedSubject(_)
ColumnAlignedSubject(a) ==
    IF a = <<>> THEN <<>>
    ELSE (IF Head(a)[1] = "-" THEN <<>> ELSE <<Head(a)[2]>>)
             \o ColumnAlignedSubject(Tail(a))

InitRoundTrip ==
    /\ \E a \in AlignmentsOf(MaxColumns) :
           /\ known = a
           /\ EnterFold(EncodeCigar(a), Ungapped(a, 2), Ungapped(a, 1))
    /\ MainIdle
    /\ CleanIdle
    /\ ScoreIdle
    /\ StarIdle

NextRoundTrip == ScanDigit \/ OpM \/ OpI \/ OpD \/ ReturnFold

SpecRoundTrip == InitRoundTrip /\ [][NextRoundTrip]_vars

\* C8: decoding the CIGAR encoding of a known alignment over the ungapped
\* subject and query reproduces the column-aligned subject string of the
\* alignment (and its query row).
C8_RoundTrip ==
    /\ pc_fold # "raised"
    /\ pc_fold = "returned" =>
           /\ alignment_s = ColumnAlignedSubject(known)
           /\ alignment_q = Ungapped(known, 1)

\* an alignment with a leading inserted residue, a pair, a gap and a pair
C8_Witness ==
    /\ pc_fold = "returned"
    /\ known = <<<<"-", "B">>, <<"F", "A">>, <<"F", "-">>, <<"G", "B">>>>
    /\ cigar_string = <<"1", "D", "1", "M", "1", "I", "1", "M">>
    /\ alignment_s = <<"A", "-", "B">>

(***************************************************************************)
(* hits_to_a3m and __main__, dia2a3m.py.                                   *)
(* A split line of the hit list is                                         *)
(*   <<query id, subject sequence, CIGAR, q_start, s_start, header>>,      *)
(* with the two offsets already read as integers (int(l[2]), int(l[3])).   *)
(* A dict is the sequence of its <<key, value>> items in insertion order.  *)
(***************************************************************************)
Whitespace == {" ", "\t", "\n"}

\* str.strip()
RECURSIVE StripLeft(_)
StripLeft(str) ==
    IF str # <<>> /\ Head(str) \in Whitespace THEN StripLeft(Tail(str)) ELSE str

RECURSIVE StripRight(_)
StripRight(str) ==
    IF str # <<>> /\ str[Len(str)] \in Whitespace
    THEN StripRight(SubSeq(str, 1, Len(str) - 1))
    ELSE str

Strip(str) == StripRight(StripLeft(str))

\* a slice bound of Python: negative counts from the end, then clamped
SliceBound(str, k) == IF k < 0 THEN Max(Len(str) + k, 0) ELSE Min(k, Len(str))

\* str[:k]
SliceTo(str, k) == SubSeq(str, 1, SliceBound(str, k))

\* str[k:]
SliceFrom(str, k) == SubSeq(str, SliceBound(str, k) + 1, Len(str))

\* "-" * n  and  [""] * n
Gaps(n) == [i \in 1..n |-> "-"]
Empties(n) == [i \in 1..n |-> <<>>]

\* lines 27-30 of hits_per_query: one line added to the dict d
AddLine(d, l) ==
    IF \E i \in 1..Len(d) : d[i][1] = l[1]
    THEN [i \in 1..Len(d) |->
              IF d[i][1] = l[1] THEN <<d[i][1], Append(d[i][2], Tail(l))>>
              ELSE d[i]]
    ELSE Append(d, <<l[1], <<Tail(l)>>>>)

\* lines 15-32
RECURSIVE hits_per_query(_)
hits_per_query(lines) ==
    IF lines = <<>> THEN <<>>
    ELSE AddLine(hits_per_query(SubSeq(lines, 1, Len(lines) - 1)),
                 lines[Len(lines)])

\* lines 6-12: read_fasta_file, a dict id -> sequence (a later record of the
\* same id replaces an earlier one)
read_fasta_file(records) ==
    [id \in {records[i][1] : i \in 1..Len(records)} |->
        LET last == CHOOSE i \in 1..Len(records) :
                        /\ records[i][1] = id
                        /\ \A j \in (i + 1)..Len(records) : records[j][1] # id
        IN  Strip(records[last][2])]

\* lines 114-138: one hit l = [seq, cigar, q_start, s_start, header] of
\* all_hits; q_seq is already stripped
HitRow(q_seq, l) ==
    LET hit_seq == l[1]
        cigar == l[2]
        q_start == l[3] - 1
        s_start == l[4] - 1
        header == l[5]
        q_prefix == SliceTo(q_seq, q_start)
        q_aln == SliceFrom(q_seq, q_start)
        s_prefix == Gaps(Len(q_prefix))
        s_sub == SliceFrom(hit_seq, s_start)
        res == cigar_to_alignment_fold(cigar, s_sub, q_aln)
        s_full == s_prefix \o res.alignment_s
        ins_full == Empties(Len(q_prefix)) \o res.insertions
    IN  [raised |-> res.raised,
         header |-> header,
         s_full |-> IF Len(s_full) < Len(q_seq)
                    THEN s_full \o Gaps(Len(q_seq) - Len(s_full))
                    ELSE IF Len(s_full) > Len(q_seq)
                    THEN SliceTo(s_full, Len(q_seq))
                    ELSE s_full,
         ins_full |-> IF Len(s_full) < Len(q_seq)
                      THEN ins_full \o Empties(Len(q_seq) - Len(ins_full))
                      ELSE IF Len(s_full) > Len(q_seq)
                      THEN SliceTo(ins_full, Len(q_seq))
                      ELSE ins_full]

\* a writer that puts the insertion in place of the column character
RECURSIVE InterleaveReplacing(_, _)
InterleaveReplacing(s_full, ins_full) ==
    IF s_full = <<>> \/ ins_full = <<>> THEN <<>>
    ELSE (IF Head(ins_full) # <<>> THEN Head(ins_full) ELSE <<Head(s_full)>>)
             \o InterleaveReplacing(Tail(s_full), Tail(ins_full))

\* lines 149-154: the sequence line of one hit
RECURSIVE Interleave(_, _)
Interleave(s_full, ins_full) ==
    IF s_full = <<>> \/ ins_full = <<>> THEN <<>>
    ELSE <<Head(s_full)>> \o Head(ins_full)
             \o Interleave(Tail(s_full), Tail(ins_full))

\* lines 106-154: the records written to <outfname>.a3m, each a header (the
\* text after ">") and a sequence line; raised when a hit fails to decode,
\* which is before the file is opened
hits_to_a3m(q_seq_arg, all_hits, outfname) ==
    LET q_seq == Strip(q_seq_arg)
        rows == [k \in 1..Len(all_hits) |-> HitRow(q_seq, all_hits[k])]
    IN  IF \E k \in 1..Len(rows) : rows[k].raised
        THEN [raised |-> TRUE, records |-> <<>>]
        ELSE [raised |-> FALSE,
              records |-> <<[header |-> outfname, line |-> q_seq]>> \o
                  [k \in 1..Len(rows) |->
                      [header |-> rows[k].header,
                       line |-> Interleave(rows[k].s_full, rows[k].ins_full)]]]

FoldIdle ==
    /\ cigar_string = <<>>
    /\ sequence = <<>>
    /\ query = <<>>
    /\ pos = 0
    /\ index = 0
    /\ s_curr = 0
    /\ q_curr = 0
    /\ col = -1
    /\ alignment_q = <<>>
    /\ alignment_s = <<>>
    /\ insertions = <<>>
    /\ pc_fold = "idle"
    /\ known = <<>>

\* ---- inputs of the converter
QueryIds == {"q1", "q2", "q3"}
FastaSequence(id) ==
    CASE id = "q1" -> <<"F", "G">> [] id = "q2" -> <<"F", "G", "H">>
      [] OTHER -> <<"F">>

\* query sequences with lower-case (soft-masked) residues
MaskedQueries == {<<"F", "g">>, <<"f">>}

\* a FASTA file holding the ids of ids, in the order q1, q2, q3
RECURSIVE FastaOf(_, _)
FastaOf(order, ids) ==
    IF order = <<>> THEN <<>>
    ELSE (IF Head(order) \in ids
          THEN <<<<Head(order), FastaSequence(Head(order))>>>> ELSE <<>>)
             \o FastaOf(Tail(order), ids)

\* hits of a hit list over several queries: <<seq, cigar, q_start, s_start>>
FewHits ==
    {<<<<"A", "B">>, <<"1", "M", "1", "D">>, 1, 1>>,
     <<<<"A", "B">>, <<"2", "X">>, 1, 1>>}

\* hits of a hit list of one query: every start offset, also before the
\* first and beyond the last character
HitCigars ==
    {<<"2", "M">>, <<"1", "D", "1", "M", "1", "D", "1", "I">>, <<"1", "0", "M">>}
HitStarts == {-1, 0, 1, 2, 5}
ManyHits ==
    {<<Residues, c, qs, 1>> : c \in HitCigars, qs \in HitStarts}
        \cup {<<Residues, <<"2", "M">>, 1, ss>> : ss \in HitStarts}

\* the lines of a hit list: 1 .. n -> <<query id, hit>>; the header of a
\* line is its number in the list
LinesOf(n, ids, hits) ==
    UNION {[1..k -> ids \X hits] : k \in 0..n}
HitLine(k, idhit) ==
    <<idhit[1], idhit[2][1], idhit[2][2], idhit[2][3], idhit[2][4], k>>

EnterMain(fasta, choice) ==
    /\ fasta_records = fasta
    /\ hit_lines = [k \in 1..Len(choice) |-> HitLine(k, choice[k])]
    /\ queries_seq = <<>>
    /\ dict_hits_per_query = <<>>
    /\ main_i = 0
    /\ out_files = <<>>
    /\ warnings = <<>>
    /\ pc_main = "start"

InitMain ==
    /\ FoldIdle
    /\ CleanIdle
    /\ ScoreIdle
    /\ StarIdle
    /\ \/ \E ids \in SUBSET QueryIds,
             choice \in LinesOf(MaxLines, QueryIds, FewHits) :
              EnterMain(FastaOf(<<"q1", "q2", "q3">>, ids), choice)
       \/ \E fasta \in {<<>>} \cup {<<<<"q1", qry>>>> :
                                         qry \in Queries \cup MaskedQueries},
             choice \in LinesOf(MaxHits, {"q1"}, ManyHits) :
              EnterMain(fasta, choice)

\* lines 173-174
MainRead ==
    /\ pc_main = "start"
    /\ queries_seq' = read_fasta_file(fasta_records)
    /\ dict_hits_per_query' = hits_per_query(hit_lines)
    /\ pc_main' = "loop"
    /\ UNCHANGED <<fasta_records, hit_lines, main_i, out_files, warnings,
                   notMain>>

\* line 176: the item the for loop is at
AtItem == pc_main = "loop" /\ main_i < Len(dict_hits_per_query)
ItemQuery == dict_hits_per_query[main_i + 1][1]
ItemHits == dict_hits_per_query[main_i + 1][2]

\* lines 177-179
MainSkip ==
    /\ AtItem
    /\ ItemQuery \notin DOMAIN queries_seq
    /\ warnings' = Append(warnings, ItemQuery)
    /\ main_i' = main_i + 1
    /\ UNCHANGED <<fasta_records, hit_lines, queries_seq, dict_hits_per_query,
                   out_files, pc_main, notMain>>

\* line 180, hits_to_a3m returning: the file is written (or replaced)
MainConvert ==
    /\ AtItem
    /\ ItemQuery \in DOMAIN queries_seq
    /\ LET res == hits_to_a3m(queries_seq[ItemQuery], ItemHits, ItemQuery)
       IN  /\ ~res.raised
           /\ out_files' =
                  [f \in DOMAIN out_files \cup {ItemQuery} |->
                      IF f = ItemQuery THEN res.records ELSE out_files[f]]
    /\ main_i' = main_i + 1
    /\ UNCHANGED <<fasta_records, hit_lines, queries_seq, dict_hits_per_query,
                   warnings, pc_main, notMain>>

\* line 180, hits_to_a3m raising: nothing catches the ValueError of line 92,
\* the script ends with it
MainRaise ==
    /\ AtItem
    /\ ItemQuery \in DOMAIN queries_seq
    /\ hits_to_a3m(queries_seq[ItemQuery], ItemHits, ItemQuery).raised
    /\ pc_main' = "raised"
    /\ UNCHANGED <<fasta_records, hit_lines, queries_seq, dict_hits_per_query,
                   main_i, out_files, warnings, notMain>>

\* line 176: the loop is exhausted, the script ends
MainDone ==
    /\ pc_main = "loop"
    /\ main_i >= Len(dict_hits_per_query)
    /\ pc_main' = "done"
    /\ UNCHANGED <<fasta_records, hit_lines, queries_seq, dict_hits_per_query,
                   main_i, out_files, warnings, notMain>>

NextMain == MainRead \/ MainSkip \/ MainConvert \/ MainRaise \/ MainDone

SpecMain == InitMain /\ [][NextMain]_vars

(***************************************************************************)
(* Claims about the converter.                                             *)
(***************************************************************************)
IsColumnChar(char) == char \notin LowerChars

\* the characters of a written line that are not insertion characters
ColumnCount(line) == Len(SelectSeq(line, IsColumnChar))

\* the lines of the hit list that name the query id, in input order
LinesFor(id) == LET Mine(l) == l[1] = id IN SelectSeq(hit_lines, Mine)

HitIds == {hit_lines[k][1] : k \in 1..Len(hit_lines)}
FastaIds == {fasta_records[k][1] : k \in 1..Len(fasta_records)}
AllCigarsValid == \A k \in 1..Len(hit_lines) : ValidCigar(hit_lines[k][3])

\* C2: for a query of length L and n well-formed hits with any start
\* offsets, the file holds exactly 1 + n records, the query first and then
\* the hits in input order, and every hit row has exactly L characters that
\* are not insertion characters.
C2_RowsAlignedToQuery ==
    /\ \A f \in DOMAIN out_files :
           LET mine == LinesFor(f)
               recs == out_files[f]
           IN  /\ Len(recs) = 1 + Len(mine)
               /\ recs[1] = [header |-> f, line |-> queries_seq[f]]
               /\ \A k \in 1..Len(mine) :
                      /\ recs[k + 1].header = mine[k][6]
                      /\ ColumnCount(recs[k + 1].line) = Len(queries_seq[f])
    /\ AllCigarsValid => pc_main # "raised"
    /\ (AllCigarsValid /\ pc_main = "done") =>
           HitIds \cap FastaIds \subseteq DOMAIN out_files

\* two hits of q1 = "FG": one starting beyond the end of the query, one
\* starting before it whose row carries an insertion
C2_Witness ==
    /\ pc_main = "done"
    /\ "q1" \in DOMAIN out_files
    /\ Len(out_files["q1"]) = 3
    /\ queries_seq["q1"] = <<"F", "G">>
    /\ hit_lines[1][4] = 5
    /\ hit_lines[2][4] = -1
    /\ out_files["q1"][2].line = <<"-", "-">>
    /\ out_files["q1"][3].line = <<"B", "c", "-">>

\* the hits of a query whose CIGAR decodes
DecodableHits(all_hits) ==
    LET Good(l) == ValidCigar(l[2]) IN SelectSeq(all_hits, Good)

\* C3: a hit whose CIGAR holds an operator outside M, I, D fails alone: the
\* run is not aborted, the other hits of its query and every other query of
\* the hit list are converted and their files written.
C3_BadCigarFailsOneRecord ==
    /\ pc_main # "raised"
    /\ pc_main = "done" =>
           \A i \in 1..Len(dict_hits_per_query) :
               LET id == dict_hits_per_query[i][1]
                   hits == dict_hits_per_query[i][2]
               IN  id \in DOMAIN queries_seq =>
                       /\ id \in DOMAIN out_files
                       /\ out_files[id] =
                              hits_to_a3m(queries_seq[id], DecodableHits(hits),
                                          id).records

\* C4: a query of the hit list that is not in the FASTA input is skipped
\* with a warning and gets no file, and every other query of the hit list
\* that is in the FASTA input gets its file, whatever the order.
C4_MissingQuerySkipped ==
    pc_main \in {"done", "raised"} =>
        /\ \A id \in HitIds \ FastaIds : id \notin DOMAIN out_files
        /\ (HitIds \ FastaIds # {}) =>
               /\ HitIds \cap FastaIds \subseteq DOMAIN out_files
               /\ \A id \in HitIds \ FastaIds :
                      \E k \in 1..Len(warnings) : warnings[k] = id

(***************************************************************************)
(* clean.py.  An optional value is [none |-> TRUE] (None) or               *)
(* [none |-> FALSE, value |-> v].  A float ratio is <<numerator,           *)
(* denominator>>.  A text field that int() is tried on is <<"int", n>> or  *)
(* <<"str", text>>.  A residue id is <<het_flag, resseq, icode>>.          *)
(***************************************************************************)
None == [none |-> TRUE]
Some(v) == [none |-> FALSE, value |-> v]

\* line 41: 0.8
COVERAGE_CUTOFF == <<4, 5>>
\* line 42
MAX_INTERNAL_GAP == 15

RatioLess(a, b) == a[1] * b[2] < b[1] * a[2]

SetMin(S) == CHOOSE x \in S : \A y \in S : x <= y
SetMax(S) == CHOOSE x \in S : \A y \in S : x >= y

\* sorted(...) of a set of integers (split at the middle of its range, to
\* keep the evaluation shallow)
RECURSIVE Sorted(_)
Sorted(S) ==
    IF S = {} THEN <<>>
    ELSE IF SetMin(S) = SetMax(S) THEN <<SetMin(S)>>
    ELSE LET mid == (SetMin(S) + SetMax(S)) \div 2
         IN  Sorted({x \in S : x <= mid}) \o Sorted({x \in S : x > mid})

\* lines 105 and 135, 200: the insertion code of a scheme row and of a residue
RowIcode(ins_code) == IF ins_code \in {".", "?"} THEN "" ELSE ins_code
ResidueKey(res) == <<res[2], IF res[3] = " " THEN "" ELSE res[3]>>

\* lines 85-97: the rows of the chain whose seq_id is an integer
\* (a row is <<seq_id, pdb_strand_id, auth_seq_num, pdb_ins_code>>)
ChainRows(rows, id) ==
    {k \in 1..Len(rows) : rows[k][2] = id /\ rows[k][1][1] = "int"}

\* lines 99-107: the rows that enter auth_map
MappedRows(rows, id) == {k \in ChainRows(rows, id) : rows[k][3][1] = "int"}

RowKey(row) == <<row[3][2], RowIcode(row[4])>>

\* lines 54-113; the dictionary is [fields |-> the two required fields are
\* there, rows |-> the rows of _pdbx_poly_seq_scheme]
get_poly_seq_scheme(dict, id) ==
    LET rows == dict.rows
        seq_id_set == {rows[k][1][2] : k \in ChainRows(rows, id)}
        keys == {RowKey(rows[k]) : k \in MappedRows(rows, id)}
    IN  IF ~dict.fields \/ seq_id_set = {}
        THEN [seq_ids |-> None, auth_map |-> None]
        ELSE [seq_ids |-> Some(Sorted(seq_id_set)),
              auth_map |-> Some([key \in keys |->
                                  {rows[k][1][2] : k \in
                                      {j \in MappedRows(rows, id) :
                                           RowKey(rows[j]) = key}}])]

\* lines 131-138
ObservedSeqIds(residues, amap) ==
    UNION {amap[ResidueKey(residues[k])] :
               k \in {j \in 1..Len(residues) :
                          ResidueKey(residues[j]) \in DOMAIN amap}}

\* a gap that counts the later position too
GapBetweenOffByOne(prev, p) == p - prev

\* line 154
GapBetween(prev, p) == p - prev - 1

\* lines 151-157 and 179-185: the scan of a sorted list from its second
\* entry on, max_gap starting at 0: the largest gap between neighbours
ScanGaps(sorted) ==
    SetMax({0} \cup {GapBetween(sorted[k - 1], sorted[k]) : k \in 2..Len(sorted)})

\* lines 116-159; the result is [coverage, max_gap]
compute_coverage_and_gap(residues, ids, amap) ==
    LET observed_seq_ids == ObservedSeqIds(residues, amap)
        obs_sorted == Sorted(observed_seq_ids)
        cov == <<Cardinality(observed_seq_ids), Len(ids)>>
    IN  IF ids = <<>> \/ observed_seq_ids = {}
        THEN [coverage |-> <<0, 1>>, max_gap |-> 0]
        ELSE IF Len(obs_sorted) < 2
        THEN [coverage |-> cov, max_gap |-> 0]
        ELSE [coverage |-> cov,
              max_gap |-> ScanGaps(obs_sorted)]

\* lines 162-187
fallback_coverage_gap(residues) ==
    LET resseqs == {residues[k][2] : k \in 1..Len(residues)}
        resseqs_sorted == Sorted(resseqs)
        length_est == SetMax(resseqs) - SetMin(resseqs) + 1
    IN  IF residues = <<>>
        THEN [coverage |-> <<0, 1>>, max_gap |-> 0]
        ELSE [coverage |-> IF length_est > 0
                           THEN <<Len(resseqs_sorted), length_est>>
                           ELSE <<0, 1>>,
              max_gap |-> ScanGaps(resseqs_sorted)]

\* lines 190-203
clean_chain_using_polymer_mapping(residues, amap) ==
    LET Kept(res) == ResidueKey(res) \in DOMAIN amap
    IN  SelectSeq(residues, Kept)

\* lines 289-292: without a mapping every HET residue goes
RemoveHet(residues) ==
    LET Kept(res) == res[1] = " " IN SelectSeq(residues, Kept)

\* lines 281-292: the model after the cleaning, the chosen chain is id
CleanModel(chains, id, amap) ==
    LET Chosen(c) == c.id = id
        kept == SelectSeq(chains, Chosen)
    IN  [k \in 1..Len(kept) |->
            [kept[k] EXCEPT !.residues =
                 IF ~amap.none
                 THEN clean_chain_using_polymer_mapping(@, amap.value)
                 ELSE RemoveHet(@)]]

\* a threshold that also rejects the cutoff itself
BelowOrAtCutoff(cov) == ~RatioLess(COVERAGE_CUTOFF, cov)

\* line 264
BelowCutoff(cov) == RatioLess(cov, COVERAGE_CUTOFF)

\* line 271
GapTooBig(gap) == gap > MAX_INTERNAL_GAP

\* ---- inputs of the cleaner
\* author numbering differs from the polymer positions; waters are numbered
\* apart from the polymer
AuthNumber(p) == p + 100
Water == <<"W", 900, " ">>

\* a field of the polymer sequence scheme that int() does not read ("?", ".")
NotAnInt == <<"str", 0>>

\* what the mmCIF dictionary of an entry holds: "rows" a full scheme,
\* "partauth" a scheme whose first row has no author number, "noauth" a
\* scheme without author numbers, "nonint" a scheme without integer
\* positions, "otherchain" a scheme of another chain only, "nofields" no
\* scheme fields, "none" an unreadable dictionary
RowKinds == {"rows", "partauth", "noauth", "nonint", "otherchain"}
DictKinds == RowKinds \cup {"nofields", "none"}

\* an entry whose chain A declares the positions D and has coordinates for
\* the positions O; kind tells what the mmCIF dictionary holds
EntryOf(D, O, kind, water, second) ==
    LET sd == Sorted(D)
        so == Sorted(O)
        rows == [k \in 1..Len(sd) |->
                    <<IF kind = "nonint" THEN NotAnInt ELSE <<"int", sd[k]>>,
                      IF kind = "otherchain" THEN "B" ELSE "A",
                      IF kind = "noauth" \/ (kind = "partauth" /\ k = 1)
                      THEN NotAnInt ELSE <<"int", AuthNumber(sd[k])>>,
                      "?">>]
                    \o (IF second
                        THEN <<<<<<"int", 1>>, "B", <<"int", 1>>, "?">>>>
                        ELSE <<>>)
        polymer == [k \in 1..Len(so) |-> <<" ", AuthNumber(so[k]), " ">>]
    IN  [parse_ok |-> TRUE,
         has_model |-> TRUE,
         dict |-> CASE kind \in RowKinds -> Some([fields |-> TRUE, rows |-> rows])
                    [] kind = "nofields" -> Some([fields |-> FALSE, rows |-> <<>>])
                    [] OTHER -> None,
         chains |-> <<[id |-> "A",
                       residues |-> polymer \o
                                    (IF water THEN <<Water>> ELSE <<>>)]>>
                    \o (IF second
                        THEN <<[id |-> "B", residues |-> <<<<" ", 1, " ">>>>]>>
                        ELSE <<>>)]

\* entries of any declared and observed positions up to MaxPos, and the
\* worked example: declared 1..10, observed 1,2,3,7,8,9,10
SmallEntries ==
    {EntryOf(D, O, "rows", water, FALSE) :
         D \in SUBSET (1..MaxPos), O \in SUBSET (1..MaxPos), water \in BOOLEAN}
        \cup {EntryOf(1..10, {1, 2, 3, 7, 8, 9, 10}, "rows", FALSE, FALSE)}

\* entries of every kind of dictionary over a few positions
MappingEntries ==
    {EntryOf(D, O, kind, water, FALSE) :
         D \in SUBSET (1..(MaxPos \div 2)), O \in SUBSET (1..(MaxPos \div 2)),
         kind \in DictKinds, water \in BOOLEAN}

\* entries around the two thresholds: n declared positions, a gap of g
\* positions after position 30, t positions missing at the end
ThresholdEntries ==
    {EntryOf(1..n, ((1..n) \ (31..(30 + g))) \ ((n - t + 1)..n),
             kind, water, second) :
         n \in {5 * MAX_INTERNAL_GAP, 5 * MAX_INTERNAL_GAP + 5},
         g \in (MAX_INTERNAL_GAP - 1)..(MAX_INTERNAL_GAP + 1),
         t \in {0, 1},
         kind \in {"rows", "nofields", "none"},
         water \in BOOLEAN, second \in BOOLEAN}

\* entries of a directory of several files
FewEntries ==
    {[parse_ok |-> FALSE, has_model |-> FALSE, dict |-> None, chains |-> <<>>],
     [parse_ok |-> TRUE, has_model |-> FALSE, dict |-> None, chains |-> <<>>],
     [parse_ok |-> TRUE, has_model |-> TRUE, dict |-> None, chains |-> <<>>],
     EntryOf(1..3, 1..3, "rows", TRUE, TRUE),
     EntryOf(1..3, {1}, "rows", FALSE, FALSE),
     EntryOf(1..3, 1..3, "none", TRUE, FALSE)}

EnterClean(dir) ==
    /\ in_dir = dir
    /\ cif_files = <<>>
    /\ file_i = 0
    /\ log_fh = <<>>
    /\ out_cif = <<>>
    /\ structure = [has_model |-> FALSE, chains |-> <<>>]
    /\ cif_dict = None
    /\ chain_id = ""
    /\ seq_ids = None
    /\ auth_map = None
    /\ method = ""
    /\ coverage = <<0, 1>>
    /\ max_gap = 0
    /\ pc_clean = "list"

InitClean ==
    /\ FoldIdle
    /\ MainIdle
    /\ ScoreIdle
    /\ StarIdle
    /\ \/ \E e \in SmallEntries \cup MappingEntries \cup ThresholdEntries :
              EnterClean([name \in {1} |-> e])
       \/ \E names \in SUBSET (1..MaxFiles) :
              \E dir \in [names -> FewEntries] : EnterClean(dir)

LogLine(file, status, reason) ==
    [file |-> file, status |-> status, reason |-> reason, chain |-> "",
     coverage |-> <<0, 1>>, max_gap |-> 0, method |-> ""]

\* lines 335-338: no file, main returns before the log is opened
NoFiles ==
    /\ pc_clean = "list"
    /\ DOMAIN in_dir = {}
    /\ pc_clean' = "done"
    /\ UNCHANGED <<in_dir, cif_files, file_i, log_fh, out_cif, structure,
                   cif_dict, chain_id, seq_ids, auth_map, method, coverage,
                   max_gap, notClean>>

\* lines 335 and 340-341: the sorted file list, the log opened with its header
ListFiles ==
    /\ pc_clean = "list"
    /\ DOMAIN in_dir # {}
    /\ cif_files' = Sorted(DOMAIN in_dir)
    /\ log_fh' = <<LogLine(0, "#", "header")>>
    /\ pc_clean' = "parse"
    /\ UNCHANGED <<in_dir, file_i, out_cif, structure, cif_dict, chain_id,
                   seq_ids, auth_map, method, coverage, max_gap, notClean>>

\* line 342: the file the loop is at
AtFile == file_i < Len(cif_files)
basename == cif_files[file_i + 1]
Entry == in_dir[basename]

\* a return of process_cif_file that logs nothing
ReturnUnlogged(msg) ==
    /\ log_fh' = log_fh
    /\ file_i' = file_i + 1
    /\ pc_clean' = "parse"

\* a return of process_cif_file after the log line msg
ReturnWith(msg) ==
    /\ log_fh' = Append(log_fh, msg)
    /\ file_i' = file_i + 1
    /\ pc_clean' = "parse"

\* lines 212-218
ParseError ==
    /\ pc_clean = "parse" /\ AtFile
    /\ ~Entry.parse_ok
    /\ ReturnWith(LogLine(basename, "REJECT", "parse_error"))
    /\ UNCHANGED <<in_dir, cif_files, out_cif, structure, cif_dict, chain_id,
                   seq_ids, auth_map, method, coverage, max_gap, notClean>>

\* lines 213 and 221-226: the structure and the dictionary are loaded
LoadFile ==
    /\ pc_clean = "parse" /\ AtFile
    /\ Entry.parse_ok
    /\ structure' = [has_model |-> Entry.has_model, chains |-> Entry.chains]
    /\ cif_dict' = Entry.dict
    /\ pc_clean' = "model"
    /\ UNCHANGED <<in_dir, cif_files, file_i, log_fh, out_cif, chain_id,
                   seq_ids, auth_map, method, coverage, max_gap, notClean>>

\* lines 229-235
NoModel0 ==
    /\ pc_clean = "model"
    /\ ~structure.has_model
    /\ ReturnWith(LogLine(basename, "REJECT", "no_model_0"))
    /\ UNCHANGED <<in_dir, cif_files, out_cif, structure, cif_dict, chain_id,
                   seq_ids, auth_map, method, coverage, max_gap, notClean>>

\* lines 238-243
NoChains ==
    /\ pc_clean = "model"
    /\ structure.has_model
    /\ structure.chains = <<>>
    /\ ReturnWith(LogLine(basename, "REJECT", "no_chains_found"))
    /\ UNCHANGED <<in_dir, cif_files, out_cif, structure, cif_dict, chain_id,
                   seq_ids, auth_map, method, coverage, max_gap, notClean>>

\* lines 245-252: the scheme of the first chain
SchemeOfFirstChain ==
    IF cif_dict.none THEN [seq_ids |-> None, auth_map |-> None]
    ELSE get_poly_seq_scheme(cif_dict.value, structure.chains[1].id)

HasChain == pc_clean = "model" /\ structure.has_model /\ structure.chains # <<>>

\* lines 245-261, the else branch
MeasureMain ==
    /\ HasChain
    /\ ~SchemeOfFirstChain.seq_ids.none /\ ~SchemeOfFirstChain.auth_map.none
    /\ chain_id' = structure.chains[1].id
    /\ seq_ids' = SchemeOfFirstChain.seq_ids
    /\ auth_map' = SchemeOfFirstChain.auth_map
    /\ method' = "main"
    /\ LET m == compute_coverage_and_gap(structure.chains[1].residues,
                                         SchemeOfFirstChain.seq_ids.value,
                                         SchemeOfFirstChain.auth_map.value)
       IN  coverage' = m.coverage /\ max_gap' = m.max_gap
    /\ pc_clean' = "threshold"
    /\ UNCHANGED <<in_dir, cif_files, file_i, log_fh, out_cif, structure,
                   cif_dict, notClean>>

\* lines 245-258, the fallback branch
MeasureFallback ==
    /\ HasChain
    /\ SchemeOfFirstChain.seq_ids.none \/ SchemeOfFirstChain.auth_map.none
    /\ chain_id' = structure.chains[1].id
    /\ seq_ids' = SchemeOfFirstChain.seq_ids
    /\ auth_map' = SchemeOfFirstChain.auth_map
    /\ method' = "fallback"
    /\ LET m == fallback_coverage_gap(structure.chains[1].residues)
       IN  coverage' = m.coverage /\ max_gap' = m.max_gap
    /\ pc_clean' = "threshold"
    /\ UNCHANGED <<in_dir, cif_files, file_i, log_fh, out_cif, structure,
                   cif_dict, notClean>>

Measured(status, reason) ==
    [file |-> basename, status |-> status, reason |-> reason,
     chain |-> chain_id, coverage |-> coverage, max_gap |-> max_gap,
     method |-> method]

\* lines 264-269
RejectLowCoverage ==
    /\ pc_clean = "threshold"
    /\ BelowCutoff(coverage)
    /\ ReturnWith(Measured("REJECT", "low_coverage"))
    /\ UNCHANGED <<in_dir, cif_files, out_cif, structure, cif_dict, chain_id,
                   seq_ids, auth_map, method, coverage, max_gap, notClean>>

\* lines 271-276
RejectBigGap ==
    /\ pc_clean = "threshold"
    /\ ~BelowCutoff(coverage)
    /\ GapTooBig(max_gap)
    /\ ReturnWith(Measured("REJECT", "big_internal_gap"))
    /\ UNCHANGED <<in_dir, cif_files, out_cif, structure, cif_dict, chain_id,
                   seq_ids, auth_map, method, coverage, max_gap, notClean>>

\* lines 278-307: the model is cleaned, saved and logged
Accept ==
    /\ pc_clean = "threshold"
    /\ ~BelowCutoff(coverage)
    /\ ~GapTooBig(max_gap)
    /\ structure' = [structure EXCEPT
                         !.chains = CleanModel(@, chain_id, auth_map)]
    /\ out_cif' = [f \in DOMAIN out_cif \cup {basename} |->
                      IF f = basename
                      THEN CleanModel(structure.chains, chain_id, auth_map)
                      ELSE out_cif[f]]
    /\ ReturnWith(Measured("ACCEPT", "ok"))
    /\ UNCHANGED <<in_dir, cif_files, cif_dict, chain_id, seq_ids, auth_map,
                   method, coverage, max_gap, notClean>>

\* lines 342-345: the loop is exhausted
CleanDone ==
    /\ pc_clean = "parse"
    /\ ~AtFile
    /\ pc_clean' = "done"
    /\ UNCHANGED <<in_dir, cif_files, file_i, log_fh, out_cif, structure,
                   cif_dict, chain_id, seq_ids, auth_map, method, coverage,
                   max_gap, notClean>>

NextClean ==
    \/ NoFiles \/ ListFiles \/ ParseError \/ LoadFile \/ NoModel0 \/ NoChains
    \/ MeasureMain \/ MeasureFallback
    \/ RejectLowCoverage \/ RejectBigGap \/ Accept \/ CleanDone

SpecClean == InitClean /\ [][NextClean]_vars

(***************************************************************************)
(* Claims about the cleaner.                                               *)
(***************************************************************************)
\* the declared polymer positions of the chosen chain, and those of them
\* that have a residue with coordinates in the chain
DeclaredPositions == {seq_ids.value[k] : k \in 1..Len(seq_ids.value)}
ObservedPositions ==
    {p \in DeclaredPositions :
         \E k \in 1..Len(structure.chains[1].residues) :
             \E r \in 1..Len(cif_dict.value.rows) :
                 /\ cif_dict.value.rows[r][1] = <<"int", p>>
                 /\ cif_dict.value.rows[r][2] = chain_id
                 /\ cif_dict.value.rows[r][3]
                        = <<"int", structure.chains[1].residues[k][2]>>
                 /\ structure.chains[1].residues[k][3] = " "}

\* the positions of missing that lie strictly between lo and hi
Between(missing, lo, hi) == {p \in missing : lo < p /\ p < hi}

\* the length of the longest run of consecutive integers within M
LongestRun(M) ==
    IF M = {} THEN 0
    ELSE SetMax({SetMin({n \in 1..(Cardinality(M) + 1) : a + n \notin M}) :
                     a \in M})

\* the longest run of unobserved positions of candidates strictly between
\* the first and the last observed position
InternalGap(candidates) ==
    IF ObservedPositions = {} THEN 0
    ELSE LongestRun(Between(candidates \ ObservedPositions,
                            SetMin(ObservedPositions),
                            SetMax(ObservedPositions)))

MainMeasured == pc_clean = "threshold" /\ method = "main"

CoverageIsObservedOverDeclared ==
    coverage[1] * Cardinality(DeclaredPositions)
        = Cardinality(ObservedPositions) * coverage[2]

\* C9 as claimed: coverage is |observed| / |declared| and the maximum
\* internal gap is the longest contiguous run of declared-but-unobserved
\* positions strictly between the first and the last observed position.
C9_GapOfDeclaredPositions ==
    MainMeasured =>
        /\ CoverageIsObservedOverDeclared
        /\ max_gap = InternalGap(DeclaredPositions)

\* C9, amended: coverage is |observed| / |declared| and the maximum internal
\* gap is the longest run of consecutive integers without an observed
\* position strictly between the first and the last observed position,
\* declared or not; when the declared positions are a contiguous range this
\* is the longest run of declared-but-unobserved positions.  Declared 1..10
\* with observed 1,2,3,7,8,9,10 gives coverage 0.7 and gap 3.
C9_GapOfMissingIntegers ==
    MainMeasured =>
        /\ CoverageIsObservedOverDeclared
        /\ max_gap = InternalGap(SetMin(DeclaredPositions)..SetMax(DeclaredPositions))
        /\ DeclaredPositions = SetMin(DeclaredPositions)..SetMax(DeclaredPositions)
               => max_gap = InternalGap(DeclaredPositions)
        /\ (DeclaredPositions = 1..10
               /\ ObservedPositions = {1, 2, 3, 7, 8, 9, 10})
               => (coverage = <<7, 10>> /\ max_gap = 3)

C9_Witness ==
    /\ MainMeasured
    /\ DeclaredPositions = 1..10
    /\ ObservedPositions = {1, 2, 3, 7, 8, 9, 10}
    /\ max_gap = 3

\* the entry of the k-th file and its log line
FileEntry(k) == in_dir[cif_files[k]]
FileLine(k) == log_fh[k + 1]

\* an entry that has a first chain to measure
HasFirstChain(e) == e.parse_ok /\ e.has_model /\ e.chains # <<>>

\* the residues of the first chain that are polymer residues: on the main
\* path those the polymer sequence scheme of the chain maps, on the
\* fallback path those that are not HET
PolymerOnly(e, path) ==
    LET c == e.chains[1]
        InScheme(res) ==
            \E k \in 1..Len(e.dict.value.rows) :
                LET row == e.dict.value.rows[k]
                IN  /\ row[2] = c.id
                    /\ row[1][1] = "int"
                    /\ row[3][1] = "int"
                    /\ row[3][2] = res[2]
                    /\ res[3] = " "
        NotHet(res) == res[1] = " "
    IN  <<[id |-> c.id,
           residues |-> IF path = "main" THEN SelectSeq(c.residues, InScheme)
                        ELSE SelectSeq(c.residues, NotHet)]>>

SchemeRows(e) ==
    {k \in 1..Len(e.dict.value.rows) :
         /\ e.dict.value.rows[k][2] = e.chains[1].id
         /\ e.dict.value.rows[k][1][1] = "int"}

\* the mapping is absent: the dictionary is unreadable, the required fields
\* are missing, or the chain has no integer position
MappingAbsent(e) ==
    \/ e.dict.none
    \/ ~e.dict.value.fields
    \/ SchemeRows(e) = {}

\* the mapping is empty: no row of the chain has a usable author number
MappingEmpty(e) ==
    /\ ~MappingAbsent(e)
    /\ \A k \in SchemeRows(e) : e.dict.value.rows[k][3][1] # "int"

\* the residue numbers of the first chain of entry e
RawNumbers(e) ==
    {e.chains[1].residues[k][2] : k \in 1..Len(e.chains[1].residues)}

\* C11: coverage and gap come from the raw author numbering, and the log
\* line is tagged method:fallback, exactly when the polymer sequence mapping
\* of the chosen chain is absent or empty (dictionary unreadable, required
\* fields missing, no integer position for the chain, or no usable author
\* number); in every other case the main path is used and the log line is
\* tagged method:main.
C11_FallbackWhenMappingAbsentOrEmpty ==
    /\ pc_clean = "threshold" =>
           /\ method = "fallback" <=>
                  (MappingAbsent(Entry) \/ MappingEmpty(Entry))
           /\ method = "main" <=>
                  ~(MappingAbsent(Entry) \/ MappingEmpty(Entry))
           /\ method = "fallback" /\ RawNumbers(Entry) # {} =>
                  coverage[1] * (SetMax(RawNumbers(Entry))
                                     - SetMin(RawNumbers(Entry)) + 1)
                      = Cardinality(RawNumbers(Entry)) * coverage[2]
    /\ pc_clean \in {"parse", "done"} /\ cif_files # <<>> =>
           \A k \in 1..file_i :
               HasFirstChain(FileEntry(k)) =>
                   FileLine(k).method =
                       IF MappingAbsent(FileEntry(k)) \/ MappingEmpty(FileEntry(k))
                       THEN "fallback" ELSE "main"

\* the files already processed to completion
DoneFiles == {cif_files[k] : k \in 1..file_i}

\* one step of the cleaner: the log only grows, by one line exactly when a
\* file is completed, and only the file being processed can appear in the
\* output directory
C15_Step ==
    /\ file_i' \in {file_i, file_i + 1}
    /\ cif_files # <<>> =>
           /\ cif_files' = cif_files
           /\ Len(log_fh') = Len(log_fh) + (file_i' - file_i)
           /\ SubSeq(log_fh', 1, Len(log_fh)) = log_fh
           /\ \A f \in DOMAIN out_cif : f \in DOMAIN out_cif' /\ out_cif'[f] = out_cif[f]
           /\ IF AtFile
              THEN DOMAIN out_cif' \ DOMAIN out_cif \subseteq {basename}
              ELSE DOMAIN out_cif' = DOMAIN out_cif
           /\ DOMAIN out_cif' # DOMAIN out_cif => file_i' = file_i + 1

\* the state of the log and of the output directory between the steps
C15_Log ==
    pc_clean \in {"parse", "model", "threshold", "done"} /\ cif_files # <<>> =>
        /\ {cif_files[k] : k \in 1..Len(cif_files)} = DOMAIN in_dir
        /\ Len(cif_files) = Cardinality(DOMAIN in_dir)
        /\ \A i, j \in 1..Len(cif_files) : i < j => cif_files[i] < cif_files[j]
        /\ file_i <= Len(cif_files)
        /\ pc_clean = "done" => file_i = Len(cif_files)
        /\ Len(log_fh) = 1 + file_i
        /\ log_fh[1].status = "#"
        /\ \A k \in 1..file_i :
               /\ FileLine(k).file = cif_files[k]
               /\ FileLine(k).status \in {"REJECT", "ACCEPT"}
               /\ FileLine(k).status = "REJECT" =>
                      FileLine(k).reason \in
                          {"parse_error", "no_model_0", "no_chains_found",
                           "low_coverage", "big_internal_gap"}
               /\ FileLine(k).status = "ACCEPT" =>
                      /\ FileLine(k).reason = "ok"
                      /\ FileLine(k).method \in {"main", "fallback"}
               /\ cif_files[k] \in DOMAIN out_cif
                      <=> FileLine(k).status = "ACCEPT"
        /\ DOMAIN out_cif \subseteq DoneFiles

\* C15: the cleaner processes the input files one at a time in sorted
\* file-name order, each to completion before the next begins: every file
\* gets exactly one log line (REJECT with a reason, or ACCEPT with metrics),
\* the log lines are in the order of the files, and a cleaned file is
\* written if and only if the log line of the file is ACCEPT.
C15_OneLogLinePerFile == [][C15_Step]_vars /\ []C15_Log

\* a directory of MaxFiles files, the first rejected and the last accepted
C15_Witness ==
    /\ pc_clean = "done"
    /\ Len(cif_files) = MaxFiles
    /\ Len(log_fh) = MaxFiles + 1
    /\ log_fh[2].status = "REJECT"
    /\ log_fh[MaxFiles + 1].status = "ACCEPT"
    /\ cif_files[1] \notin DOMAIN out_cif
    /\ cif_files[MaxFiles] \in DOMAIN out_cif

(***************************************************************************)
(* a3m_quality.py.  A file is the sequence of its lines, a line the         *)
(* sequence of its characters without the newline; a header line starts    *)
(* with ">".  A float that is a quotient is the pair <<numerator,           *)
(* denominator>>.  MeanEntropy, a float function of the normalized MSA      *)
(* that changes no state, is not represented in a metric row.               *)
(***************************************************************************)
\* line 15
ID_PERCENT == 62
\* line 16
ID_THRESH == <<ID_PERCENT, 100>>
\* line 20
GAP_CHARS == {"-", "."}

\* str.islower() on one character
IsLower(ch) == ch \in LowerChars

\* lines 33-38 and 41-43: the pending record is flushed
Flush(st) ==
    IF st.h.none THEN st
    ELSE [st EXCEPT !.headers = Append(@, st.h.value),
                    !.seqs = Append(@, st.buf)]

\* lines 29-40: one line of the file
ReadLine(st, raw) ==
    LET line == Strip(raw)
    IN  IF line = <<>> THEN st
        ELSE IF Head(line) = ">"
        THEN [Flush(st) EXCEPT !.h = Some(Strip(Tail(line))), !.buf = <<>>]
        ELSE [st EXCEPT !.buf = @ \o line]

RECURSIVE ReadLines(_)
ReadLines(lines) ==
    IF lines = <<>>
    THEN [headers |-> <<>>, seqs |-> <<>>, h |-> None, buf |-> <<>>]
    ELSE ReadLine(ReadLines(SubSeq(lines, 1, Len(lines) - 1)),
                  lines[Len(lines)])

\* lines 25-44
read_fasta_like(lines) ==
    [headers |-> Flush(ReadLines(lines)).headers,
     seqs |-> Flush(ReadLines(lines)).seqs]

\* a reader that keeps the insertions
KeepInsertions(seq) == seq

\* lines 46-48
strip_a3m_insertions(seq) ==
    LET Kept(ch) == ~IsLower(ch) IN SelectSeq(seq, Kept)

\* headers[0].split()[0] if headers[0] else "UNKNOWN" (lines 63 and 73);
\* a header is already stripped
RECURSIVE FirstToken(_)
FirstToken(h) ==
    IF h = <<>> \/ Head(h) \in Whitespace THEN <<>>
    ELSE <<Head(h)>> \o FirstToken(Tail(h))

TargetOf(h) == IF h = <<>> THEN <<"UNKNOWN">> ELSE FirstToken(h)

\* lines 67-70
PadOrTruncate(row, L) ==
    IF Len(row) < L THEN row \o Gaps(L - Len(row))
    ELSE IF Len(row) > L THEN SliceTo(row, L)
    ELSE row

\* lines 50-74
normalize_msa_to_query(headers, seqs) ==
    LET seqs2 == [k \in 1..Len(seqs) |-> strip_a3m_insertions(seqs[k])]
        L == Len(seqs2[1])
    IN  IF headers = <<>> \/ seqs = <<>>
        THEN [target |-> <<"UNKNOWN">>, msa_norm |-> <<>>]
        ELSE IF L = 0
        THEN [target |-> TargetOf(headers[1]), msa_norm |-> <<>>]
        ELSE [target |-> TargetOf(headers[1]),
              msa_norm |-> [k \in 1..Len(seqs2) |-> PadOrTruncate(seqs2[k], L)]]

\* lines 103-108
gap_fraction(msa) ==
    <<Cardinality(UNION {{<<r, i>> : i \in {j \in 1..Len(msa[r]) :
                                               msa[r][j] \in GAP_CHARS}} :
                             r \in 1..Len(msa)}),
      Len(msa) * Len(msa[1])>>

\* lines 112-115: the columns of zip(a, b) that are compared
Compared(a, b) ==
    {i \in 1..Min(Len(a), Len(b)) :
         a[i] \notin GAP_CHARS /\ b[i] \notin GAP_CHARS}

\* lines 110-118
pairwise_identity_gapmasked(a, b) ==
    LET comps == Cardinality(Compared(a, b))
        matches == Cardinality({i \in Compared(a, b) : a[i] = b[i]})
    IN  IF comps # 0 THEN <<matches, comps>> ELSE <<0, 1>>

\* lines 120-130: the identities that are averaged
IdentitiesToQuery(msa) ==
    LET Comparable(s) == Compared(msa[1], s) # {}
        others == SelectSeq(Tail(msa), Comparable)
    IN  [k \in 1..Len(others) |-> pairwise_identity_gapmasked(msa[1], others[k])]

\* a test that looks at the first kept sequence only
RedundantToFirst(s, kept, thresh) ==
    kept # <<>> /\ ~RatioLess(pairwise_identity_gapmasked(s, kept[1]), thresh)

\* lines 173-177
Redundant(s, kept, thresh) ==
    \E k \in 1..Len(kept) :
        ~RatioLess(pairwise_identity_gapmasked(s, kept[k]), thresh)

\* lines 171-179: the list kept after the scan of msa
RECURSIVE KeptOf(_, _)
KeptOf(msa, thresh) ==
    IF msa = <<>> THEN <<>>
    ELSE LET kept == KeptOf(SubSeq(msa, 1, Len(msa) - 1), thresh)
             s == msa[Len(msa)]
         IN  IF Redundant(s, kept, thresh) THEN kept ELSE Append(kept, s)

\* lines 170-180
greedy_nr_count(msa, thresh) == Len(KeptOf(msa, thresh))

\* lines 212-218, for a raw_msa that is not empty (line 197: n_hat / L)
MetricsOf(tgt, msa, n_hat) ==
    [target |-> tgt,
     NEff_id62 |-> <<n_hat, Len(msa[1])>>,
     GapFraction |-> gap_fraction(msa),
     identities |-> IdentitiesToQuery(msa)]

\* ---- inputs of the scorer
MaxRows == 3        \* records of an alignment file

\* sequence lines: rows of three columns, a row with an insertion, a short
\* and a long row
MsaLines ==
    {<<"A", "A", "A">>, <<"A", "A", "B">>, <<"A", "B", "B">>,
     <<"B", "B", "B">>, <<"A", "-", "-">>, <<"-", "-", "B">>,
     <<"C", "-", "C">>,
     <<"A", "a", "A", "B">>, <<"A", "A">>, <<"A", "B", "B", "A">>}

\* the file of the records of the sequence lines seqs; the first header has
\* two words
FileOf(seqs) ==
    [k \in 1..(2 * Len(seqs)) |->
        IF k % 2 = 0 THEN seqs[k \div 2]
        ELSE IF k = 1 THEN <<">", "q", " ", "x">>
        ELSE <<">", "h">>]

AlignmentFiles ==
    UNION {{FileOf(seqs) : seqs \in [1..n -> MsaLines]} : n \in 1..MaxRows}

\* files that are not a plain list of records: no line, no header, a record
\* without a sequence, a query of insertions only, an empty header, blank
\* lines and a sequence over two lines
OddFiles ==
    {<<>>,
     <<<<"A", "B">>>>,
     <<<<">", "q">>>>,
     <<<<">", "q">>, <<"a">>, <<">", "h">>, <<"A">>>>,
     <<<<">">>, <<"A", "B">>, <<">", "h">>, <<"A", "A">>>>,
     <<<<"A">>, <<" ", ">", "q", " ">>, <<>>, <<"A", " ">>, <<"B">>,
       <<">", "h">>, <<" ", "-", "B">>>>}

\* files of a directory of several files
FewFiles ==
    {<<>>,
     FileOf(<<<<"A", "A", "A">>, <<"A", "A", "B">>>>),
     FileOf(<<<<"A", "B", "B">>, <<"A", "a", "A", "B">>, <<"B", "B", "B">>>>)}

EnterScore(dir) ==
    /\ a3m_dir = dir
    /\ paths = <<>>
    /\ path_i = 0
    /\ metric_rows = <<>>
    /\ out_tsv = None
    /\ tmp_files = {}
    /\ hh_calls = <<>>
    /\ raw_msa = <<>>
    /\ target = ""
    /\ n_hat_pending = None
    /\ pc_score = "list"

InitScore ==
    /\ FoldIdle
    /\ MainIdle
    /\ CleanIdle
    /\ StarIdle
    /\ \/ \E f \in AlignmentFiles \cup OddFiles : EnterScore([name \in {1} |-> f])
       \/ \E names \in SUBSET (1..MaxFiles) :
              \E dir \in [names -> FewFiles] : EnterScore(dir)

\* lines 222-224: no file, main raises FileNotFoundError
ScoreNoFiles ==
    /\ pc_score = "list"
    /\ DOMAIN a3m_dir = {}
    /\ pc_score' = "no_files"
    /\ UNCHANGED <<a3m_dir, paths, path_i, metric_rows, out_tsv, tmp_files,
                   hh_calls, raw_msa, target, n_hat_pending, notScore>>

\* line 222
ScoreList ==
    /\ pc_score = "list"
    /\ DOMAIN a3m_dir # {}
    /\ paths' = Sorted(DOMAIN a3m_dir)
    /\ pc_score' = "file"
    /\ UNCHANGED <<a3m_dir, path_i, metric_rows, out_tsv, tmp_files,
                   hh_calls, raw_msa, target, n_hat_pending, notScore>>

\* line 227: the file the loop is at, and lines 203-207 on it
AtPath == pc_score = "file" /\ path_i < Len(paths)
a3m_path == paths[path_i + 1]
Parsed == read_fasta_like(a3m_dir[a3m_path])
Normalized == normalize_msa_to_query(Parsed.headers, Parsed.seqs)

\* lines 203-209 and 229: compute_metrics_for_file returns None
ScoreSkip ==
    /\ AtPath
    /\ Normalized.msa_norm = <<>>
    /\ path_i' = path_i + 1
    /\ UNCHANGED <<a3m_dir, paths, metric_rows, out_tsv, tmp_files, hh_calls,
                   raw_msa, target, n_hat_pending, pc_score, notScore>>

\* what one run of the filter binary can come to (lines 157-160): the call
\* raises, the exit code is not zero, no output file, an empty output file,
\* the count raises, or an output file of n records; file tells whether
\* the output file exists afterwards
FilterOutcomes(n_in) ==
    {[kind |-> k, file |-> f, count |-> 0] :
         k \in {"run_raises", "nonzero"}, f \in BOOLEAN}
        \cup {[kind |-> "no_output", file |-> FALSE, count |-> 0],
              [kind |-> "empty_output", file |-> TRUE, count |-> 0],
              [kind |-> "count_raises", file |-> TRUE, count |-> 0]}
        \cup {[kind |-> "counted", file |-> TRUE, count |-> n] : n \in 1..n_in}

\* lines 151-152 and 195-197: the binary is not on the search path, the
\* greedy count is used
HhfilterAbsent ==
    /\ AtPath
    /\ Normalized.msa_norm # <<>>
    /\ raw_msa' = Normalized.msa_norm
    /\ target' = Normalized.target
    /\ hh_calls' = Append(hh_calls, [path |-> a3m_path, available |-> FALSE,
                                      kind |-> "", file |-> FALSE,
                                      count |-> 0, removal |-> "none"])
    /\ metric_rows' = Append(metric_rows,
           MetricsOf(Normalized.target, Normalized.msa_norm,
                     greedy_nr_count(Normalized.msa_norm, ID_THRESH)))
    /\ path_i' = path_i + 1
    /\ UNCHANGED <<a3m_dir, paths, out_tsv, tmp_files, n_hat_pending,
                   pc_score, notScore>>

\* lines 154-161: the try block of run_hhfilter_count_only
HhfilterRun ==
    /\ AtPath
    /\ Normalized.msa_norm # <<>>
    /\ raw_msa' = Normalized.msa_norm
    /\ target' = Normalized.target
    /\ \E o \in FilterOutcomes(Len(Parsed.headers)) :
           /\ tmp_files' = IF o.file THEN tmp_files \cup {a3m_path}
                           ELSE tmp_files
           /\ hh_calls' = Append(hh_calls,
                                 [path |-> a3m_path, available |-> TRUE,
                                  kind |-> o.kind, file |-> o.file,
                                  count |-> o.count, removal |-> "none"])
           /\ n_hat_pending' =
                  Some([raises |-> o.kind \in {"run_raises", "count_raises"},
                        n_hat |-> IF o.kind = "counted" THEN Some(o.count)
                                  ELSE None])
    /\ pc_score' = "finally"
    /\ UNCHANGED <<a3m_dir, paths, path_i, metric_rows, out_tsv, notScore>>

\* a cleanup that leaves the output file where it is
NoCleanup(removal) ==
    /\ removal = "failed" \/ a3m_path \notin tmp_files
    /\ tmp_files' = tmp_files
    /\ hh_calls' = [hh_calls EXCEPT ![Len(hh_calls)].removal = removal]

\* lines 162-168: the output file is removed if it exists; a removal that
\* raises is passed over
Cleanup(removal) ==
    /\ removal \in (IF a3m_path \in tmp_files THEN {"removed", "failed"}
                    ELSE {"none"})
    /\ tmp_files' = IF removal = "removed" THEN tmp_files \ {a3m_path}
                    ELSE tmp_files
    /\ hh_calls' = [hh_calls EXCEPT ![Len(hh_calls)].removal = removal]

\* lines 162-168, then the return of lines 159 and 161 and lines 195-197
HhfilterReturn ==
    /\ pc_score = "finally"
    /\ ~n_hat_pending.value.raises
    /\ \E removal \in {"none", "removed", "failed"} : Cleanup(removal)
    /\ metric_rows' = Append(metric_rows,
           MetricsOf(target, raw_msa,
                     IF n_hat_pending.value.n_hat.none
                     THEN greedy_nr_count(raw_msa, ID_THRESH)
                     ELSE n_hat_pending.value.n_hat.value))
    /\ path_i' = path_i + 1
    /\ n_hat_pending' = None
    /\ pc_score' = "file"
    /\ UNCHANGED <<a3m_dir, paths, out_tsv, raw_msa, target, notScore>>

\* lines 162-168, then the exception of the try block goes on through
\* neff_id62_from_raw_msa_only, compute_metrics_for_file and main
HhfilterPropagate ==
    /\ pc_score = "finally"
    /\ n_hat_pending.value.raises
    /\ \E removal \in {"none", "removed", "failed"} : Cleanup(removal)
    /\ n_hat_pending' = None
    /\ pc_score' = "raised"
    /\ UNCHANGED <<a3m_dir, paths, path_i, metric_rows, out_tsv, raw_msa,
                   target, notScore>>

\* lines 232-247: the loop is exhausted, the rows are written
ScoreWrite ==
    /\ pc_score = "file"
    /\ path_i = Len(paths)
    /\ out_tsv' = Some(metric_rows)
    /\ pc_score' = "done"
    /\ UNCHANGED <<a3m_dir, paths, path_i, metric_rows, tmp_files, hh_calls,
                   raw_msa, target, n_hat_pending, notScore>>

NextScore ==
    \/ ScoreNoFiles \/ ScoreList \/ ScoreSkip \/ HhfilterAbsent
    \/ HhfilterRun \/ HhfilterReturn \/ HhfilterPropagate \/ ScoreWrite

SpecScore == InitScore /\ [][NextScore]_vars

(***************************************************************************)
(* Claims about the scorer.                                                *)
(***************************************************************************)
\* control is with the caller of run_hhfilter_count_only
FilterReturned == pc_score \in {"file", "done", "raised"}

\* the calls of run_hhfilter_count_only that have returned
ReturnedCalls ==
    {k \in 1..Len(hh_calls) : FilterReturned \/ k < Len(hh_calls)}

MsaOf(name) ==
    normalize_msa_to_query(read_fasta_like(a3m_dir[name]).headers,
                           read_fasta_like(a3m_dir[name]).seqs).msa_norm
Scorable == {k \in 1..Len(paths) : MsaOf(paths[k]) # <<>>}

\* the filter was run for call k and its output was counted
FilterSucceeded(k) == hh_calls[k].available /\ hh_calls[k].kind = "counted"

\* C13: for each alignment file independently, NEff uses the record count
\* of the filter's output when the binary is available and its invocation
\* succeeds, and in every other case (binary absent, or the invocation
\* failing in any way) the greedy count on the normalized MSA of that file;
\* a failed or unavailable filter never produces a user-facing error and
\* never stops the remaining files from being scored.
C13_FilterFailureFallsBack ==
    /\ pc_score # "raised"
    /\ pc_score \in {"file", "done"} =>
           /\ Len(metric_rows) = Len(hh_calls)
           /\ \A k \in 1..Len(hh_calls) :
                  metric_rows[k].NEff_id62[1] =
                      IF FilterSucceeded(k) THEN hh_calls[k].count
                      ELSE greedy_nr_count(MsaOf(hh_calls[k].path), ID_THRESH)
    /\ pc_score = "done" =>
           /\ ~out_tsv.none
           /\ Len(out_tsv.value) = Cardinality(Scorable)

\* the gap-masked identity of the rows a and b is below 62 %: of the
\* columns where neither row has a gap, fewer than 62 in 100 agree (no such
\* column counts as identity 0)
BelowThreshold(a, b) ==
    LET both == {i \in 1..Len(a) : a[i] \notin {"-", "."} /\ b[i] \notin {"-", "."}}
        same == {i \in both : a[i] = b[i]}
    IN  both = {} \/ 100 * Cardinality(same) < 62 * Cardinality(both)

\* K holds the rows of msa that a scan in input order keeps: a row is kept
\* exactly when it is below the threshold to every row kept before it
IsKeptSet(K, msa) ==
    \A i \in 1..Len(msa) :
        i \in K <=> \A j \in K : j < i => BelowThreshold(msa[i], msa[j])

\* the rows whose count is the greedy count
GreedyRows ==
    IF pc_score \in {"file", "done"}
    THEN {k \in 1..Len(metric_rows) : ~FilterSucceeded(k)}
    ELSE {}

\* C14: greedy_nr_count keeps a sequence, in input order, only if its
\* gap-masked identity to every already-kept sequence is below the
\* threshold (no compared column counts as identity 0); when all sequences
\* are pairwise below the threshold it returns the input count, and for a
\* non-empty input the result is between 1 and the input count.
C14_GreedyCount ==
    \A k \in GreedyRows :
        LET msa == MsaOf(hh_calls[k].path)
            n == metric_rows[k].NEff_id62[1]
        IN  /\ \E K \in SUBSET (1..Len(msa)) :
                   IsKeptSet(K, msa) /\ n = Cardinality(K)
            /\ (\A i, j \in 1..Len(msa) :
                    i # j => BelowThreshold(msa[i], msa[j])) => n = Len(msa)
            /\ 1 <= n /\ n <= Len(msa)

\* AAA and BBB are kept and ABB, below the threshold to AAA but not to BBB,
\* is dropped: the count of three rows is 2
C14_Witness ==
    /\ pc_score = "done"
    /\ Len(hh_calls) = 1
    /\ ~hh_calls[1].available
    /\ MsaOf(1) = <<<<"A", "A", "A">>, <<"B", "B", "B">>, <<"A", "B", "B">>>>
    /\ metric_rows[1].NEff_id62 = <<2, 3>>

(***************************************************************************)
(* Claims about the converter and the scorer together.                     *)
(***************************************************************************)
\* the column-aligned row and the insertion strings of the k-th hit of the
\* query f, and the line written for it
AlignedHit(f, k) == HitRow(queries_seq[f], Tail(LinesFor(f)[k]))
WrittenLine(f, k) == out_files[f][k + 1].line

\* the place of column i in a written line: after the columns before it and
\* their insertion strings
RECURSIVE ColumnPlace(_, _)
ColumnPlace(ins_full, i) ==
    IF i = 1 THEN 1
    ELSE ColumnPlace(ins_full, i - 1) + 1 + Len(ins_full[i - 1])

\* in line every character of s_full is immediately followed by the
\* insertion string of its column, and nothing else is in the line
ColumnsThenInsertions(line, s_full, ins_full) ==
    /\ Len(s_full) = Len(ins_full)
    /\ \A i \in 1..Len(s_full) :
           LET at == ColumnPlace(ins_full, i)
           IN  /\ at + Len(ins_full[i]) <= Len(line)
               /\ line[at] = s_full[i]
               /\ SubSeq(line, at + 1, at + Len(ins_full[i])) = ins_full[i]
    /\ Len(line) = IF s_full = <<>> THEN 0
                   ELSE ColumnPlace(ins_full, Len(s_full))
                            + Len(ins_full[Len(s_full)])

\* every written hit row of every file reads back as its column-aligned row
HitRowsReadBack ==
    \A f \in DOMAIN out_files :
        \A k \in 1..(Len(out_files[f]) - 1) :
            /\ ColumnsThenInsertions(WrittenLine(f, k), AlignedHit(f, k).s_full,
                                     AlignedHit(f, k).ins_full)
            /\ strip_a3m_insertions(WrittenLine(f, k)) = AlignedHit(f, k).s_full
            /\ Len(strip_a3m_insertions(WrittenLine(f, k))) = Len(queries_seq[f])

\* the scorer's normalized MSA of the written file f, and the rows of the
\* file with their insertions removed
NormalizedFile(f) ==
    normalize_msa_to_query([k \in 1..Len(out_files[f]) |-> <<out_files[f][k].header>>],
                           [k \in 1..Len(out_files[f]) |-> out_files[f][k].line]).msa_norm
StrippedFile(f) ==
    [k \in 1..Len(out_files[f]) |-> strip_a3m_insertions(out_files[f][k].line)]

\* no row of the file f is padded or truncated
NotPaddedNorTruncated(f) ==
    queries_seq[f] # <<>> => NormalizedFile(f) = StrippedFile(f)

HasLower(seq) == \E i \in 1..Len(seq) : seq[i] \in LowerChars

\* C16 as claimed: for every hit row written from a subject of upper-case
\* residues, each column's aligned character is immediately followed by the
\* column's insertion string and removing the lower-case characters gives
\* back the column-aligned row of length len(q_seq); hence
\* normalize_msa_to_query neither pads nor truncates any row of a
\* converter-produced file.
C16_ConverterScorerRoundTrip ==
    /\ HitRowsReadBack
    /\ \A f \in DOMAIN out_files : NotPaddedNorTruncated(f)

\* C16, amended: the hit rows read back as claimed; normalize_msa_to_query
\* neither pads nor truncates a row of a converter-produced file when the
\* query sequence holds no lower-case character.  With lower-case query
\* characters the query row loses them too, and every row is cut to the
\* number of query characters that are not lower-case.
C16_RoundTripForUpperCaseQuery ==
    /\ HitRowsReadBack
    /\ \A f \in DOMAIN out_files :
           /\ ~HasLower(queries_seq[f]) => NotPaddedNorTruncated(f)
           /\ LET L == Len(strip_a3m_insertions(queries_seq[f]))
              IN  NormalizedFile(f) =
                      IF L = 0 THEN <<>>
                      ELSE [k \in 1..Len(out_files[f]) |->
                               SliceTo(StrippedFile(f)[k], L)]

\* the file of q1 = "FG" with a hit row "Bc-": column B, its insertion c,
\* then a gap column; the scorer reads the row as "B-"
C16_Witness ==
    /\ pc_main = "done"
    /\ "q1" \in DOMAIN out_files
    /\ queries_seq["q1"] = <<"F", "G">>
    /\ Len(out_files["q1"]) = 3
    /\ out_files["q1"][3].line = <<"B", "c", "-">>
    /\ NormalizedFile("q1")[1] = <<"F", "G">>
    /\ NormalizedFile("q1")[3] = <<"B", "-">>

(***************************************************************************)
(* cigar_to_alignment_fold, star_alighnment_DIAMOND.py.  The locals of the *)
(* function are a record [index, s_curr, q_curr, alignment_q, alignment_s, *)
(* raised].                                                                *)
(***************************************************************************)
\* str[a:b] for 0 <= a <= b
Slice(str, a, b) == SubSeq(str, Min(a, Len(str)) + 1, Min(b, Len(str)))

\* lines 30-34
StarStart ==
    [index |-> 0, s_curr |-> 0, q_curr |-> 0,
     alignment_q |-> <<>>, alignment_s |-> <<>>, raised |-> FALSE]

\* lines 39-44
StarM(st, seq, qry) ==
    [st EXCEPT !.alignment_s = @ \o Slice(seq, st.s_curr, st.s_curr + st.index),
               !.alignment_q = @ \o Slice(qry, st.q_curr, st.q_curr + st.index),
               !.s_curr = @ + st.index,
               !.q_curr = @ + st.index,
               !.index = 0]

\* the branch of the lines commented out at 46-47: a deletion that emits
\* the subject characters against gaps in the query
StarDEmits(st, seq, qry) ==
    [st EXCEPT !.alignment_s = @ \o Slice(seq, st.s_curr, st.s_curr + st.index),
               !.alignment_q = @ \o Gaps(st.index),
               !.s_curr = @ + st.index,
               !.index = 0]

\* lines 45-49
StarD(st, seq, qry) ==
    [st EXCEPT !.s_curr = @ + st.index, !.index = 0]

\* lines 50-54
StarI(st, seq, qry) ==
    [st EXCEPT !.alignment_q = @ \o Slice(qry, st.q_curr, st.q_curr + st.index),
               !.alignment_s = @ \o Gaps(st.index),
               !.q_curr = @ + st.index,
               !.index = 0]

\* lines 36-56: one character of the CIGAR string
StarStep(st, char, seq, qry) ==
    IF IsDigit(char) THEN [st EXCEPT !.index = @ * 10 + DigitValue(char)]
    ELSE IF char = "M" THEN StarM(st, seq, qry)
    ELSE IF char = "D" THEN StarD(st, seq, qry)
    ELSE IF char = "I" THEN StarI(st, seq, qry)
    ELSE [st EXCEPT !.raised = TRUE]

\* lines 35-56: the for loop from character k + 1 on; stops at a raise
RECURSIVE StarLoop(_, _, _, _, _)
StarLoop(st, k, cigar, seq, qry) ==
    IF st.raised \/ k >= Len(cigar) THEN st
    ELSE StarLoop(StarStep(st, cigar[k + 1], seq, qry), k + 1, cigar, seq, qry)

\* lines 57-60
StarTail(st, qry) ==
    LET aq == IF st.q_curr < Len(qry)
              THEN st.alignment_q \o SliceFrom(qry, st.q_curr)
              ELSE st.alignment_q
    IN  [st EXCEPT !.alignment_q = aq,
                   !.alignment_s =
                       IF Len(@) < Len(aq) THEN @ \o Gaps(Len(aq) - Len(@))
                       ELSE @]

\* lines 29-62: the whole function; the result is
\* [raised, alignment_q, alignment_s]
star_cigar_to_alignment_fold(cigar, seq, qry) ==
    LET st == StarLoop(StarStart, 0, cigar, seq, qry)
        fin == IF st.raised THEN st ELSE StarTail(st, qry)
    IN  [raised |-> fin.raised,
         alignment_q |-> IF fin.raised THEN <<>> ELSE fin.alignment_q,
         alignment_s |-> IF fin.raised THEN <<>> ELSE fin.alignment_s]

\* the decoder of star_alighnment_DIAMOND.py is run on the arguments the
\* decoder of dia2a3m.py has ended on, and returns (line 62)
StarReturn ==
    /\ FoldEnded
    /\ pc_star = "idle"
    /\ ~star_cigar_to_alignment_fold(cigar_string, sequence, query).raised
    /\ star_alignment_q' =
           star_cigar_to_alignment_fold(cigar_string, sequence, query).alignment_q
    /\ star_alignment_s' =
           star_cigar_to_alignment_fold(cigar_string, sequence, query).alignment_s
    /\ pc_star' = "returned"
    /\ UNCHANGED notStar

\* the same, ending with the ValueError of line 56
StarRaise ==
    /\ FoldEnded
    /\ pc_star = "idle"
    /\ star_cigar_to_alignment_fold(cigar_string, sequence, query).raised
    /\ pc_star' = "raised"
    /\ UNCHANGED <<star_alignment_q, star_alignment_s, notStar>>

NextStar == Next \/ StarReturn \/ StarRaise

SpecStar == Init /\ [][NextStar]_vars

(***************************************************************************)
(* Claims about the two decoders.                                          *)
(***************************************************************************)
\* the characters the runs of the operators ops consume: the sum of their
\* run lengths, from character k on, index being the run length read so far
RECURSIVE RunTotal(_, _, _, _)
RunTotal(cigar, k, run, ops) ==
    IF k > Len(cigar) THEN 0
    ELSE IF IsDigit(cigar[k])
    THEN RunTotal(cigar, k + 1, run * 10 + DigitValue(cigar[k]), ops)
    ELSE (IF cigar[k] \in ops THEN run ELSE 0) + RunTotal(cigar, k + 1, 0, ops)

\* a CIGAR over M, I, D whose runs stay within the query and the subject
WellFormed(cigar, seq, qry) ==
    /\ ValidCigar(cigar)
    /\ RunTotal(cigar, 1, 0, {"M", "I"}) <= Len(qry)
    /\ RunTotal(cigar, 1, 0, {"M", "D"}) <= Len(seq)

\* C17: for every CIGAR over M, I, D whose M and I runs consume no more
\* than len(query) query characters and whose M and D runs consume no more
\* than len(sequence) subject characters, the decoder of
\* star_alighnment_DIAMOND.py and the decoder of dia2a3m.py return the same
\* aligned query string and the same column-aligned subject string.
C17_DecodersAgree ==
    (pc_star # "idle" /\ WellFormed(cigar_string, sequence, query)) =>
        /\ pc_star = "returned"
        /\ pc_fold = "returned"
        /\ star_alignment_q = alignment_q
        /\ star_alignment_s = alignment_s

\* "1M1D1I" over a subject of at least two characters and the query "FG":
\* both decoders return FG and A-
C17_Witness ==
    /\ pc_star = "returned"
    /\ cigar_string = <<"1", "M", "1", "D", "1", "I">>
    /\ WellFormed(cigar_string, sequence, query)
    /\ Len(sequence) >= 2
    /\ star_alignment_q = <<"F", "G">>
    /\ star_alignment_s = <<"A", "-">>
    /\ alignment_s = <<"A", "-">>
    /\ insertions = <<<<"b">>, <<>>>>

====
